---- MODULE Spec2Model ----
(***************************************************************************)
(* Model of photo_lib's PhotoFile (src/src/photo_file.rs): an in-memory    *)
(* record of the raw / developed / other files linked to one photo name,   *)
(* with get-or-set accessors for the three existence flags, the derived    *)
(* is_developed() predicate and clear(), which removes one linked file     *)
(* from the filesystem.                                                    *)
(*                                                                         *)
(* Strings are TLC strings, String::push_str is \o.  Option<T> is a record *)
(* [some, val]; io::Result<u32> is a record [ok, val, kind, os], where os  *)
(* tells an error built from an OS error code (the one remove_file         *)
(* returns) from one built from a bare ErrorKind (the guard in clear).     *)
(***************************************************************************)
EXTENDS Integers, FiniteSets, Sequences, TLC

\* pf:     the PhotoFile the caller owns
\* files:  the paths present in the working directory
\* locked: the paths the filesystem refuses to remove
\* last:   the last call made on pf: its arguments, what it returned and the
\*         paths it handed to remove_file
\* calls:  the number of calls made so far, PhotoFile::new included
VARIABLES pf, files, locked, last, calls

vars == <<pf, files, locked, last, calls>>

(***************************************************************************)
(* Bounds of the model.                                                    *)
(***************************************************************************)
\* Number of calls made on the record in one behaviour.
MaxCalls == 4

\* Base names handed to new.
Names == {"DSCF1022", "test"}

\* Files that may be present in the working directory when the program starts.
DiskFiles == {"DSCF1022RAF", "DSCF1022JPG", "DSCF1022.JPG", "testxmp"}

\* Files whose removal the filesystem may refuse (permission denied).
LockedFiles == {"DSCF1022RAF"}

(***************************************************************************)
(* Option<T> and io::Result<u32>.                                          *)
(***************************************************************************)
NoneStr == [some |-> FALSE, val |-> ""]

SomeStr(s) == [some |-> TRUE, val |-> s]

NoneBool == [some |-> FALSE, val |-> FALSE]

SomeBool(b) == [some |-> TRUE, val |-> b]

OptBool == {NoneBool, SomeBool(TRUE), SomeBool(FALSE)}

\* Extension overrides handed to new, per variant.
RawExtArgs == {NoneStr, SomeStr("dng")}

ImgExtArgs == {NoneStr, SomeStr("jpg")}

OtherExtArgs == {NoneStr, SomeStr("xml")}

Ok(v) == [ok |-> TRUE, val |-> v, kind |-> "-", os |-> FALSE]

\* std::io::Error::from(kind): an error that carries no OS error code.
ErrFromKind(kind) == [ok |-> FALSE, val |-> 0, kind |-> kind, os |-> FALSE]

\* An error the operating system returned, classified by its kind.
ErrFromOs(kind) == [ok |-> FALSE, val |-> 0, kind |-> kind, os |-> TRUE]

NoResult == [ok |-> FALSE, val |-> 0, kind |-> "-", os |-> FALSE]

\* The enum of lib.rs (photo_file.rs names it PhotoType).
PhotoType == {"Raw", "Img", "Other"}

(***************************************************************************)
(* HashType::new and PhotoFile::new.                                       *)
(***************************************************************************)
HashType_new == [hash_raw |-> FALSE, hash_img |-> FALSE, hash_other |-> FALSE]

new_other_ext_ignored(name, raw_ext, img_ext, other_ext) ==
    LET rext == IF raw_ext.some THEN raw_ext.val ELSE "RAF"
        iext == IF img_ext.some THEN img_ext.val ELSE "JPG"
        oext == "xmp"
    IN  [name |-> name, types_found |-> HashType_new,
         raw_ext |-> rext, img_ext |-> iext, other_ext |-> oext]

new(name, raw_ext, img_ext, other_ext) ==
    LET rext == IF raw_ext.some THEN raw_ext.val ELSE "RAF"
        iext == IF img_ext.some THEN img_ext.val ELSE "JPG"
        oext == IF other_ext.some THEN other_ext.val ELSE "xmp"
    IN  [name |-> name, types_found |-> HashType_new,
         raw_ext |-> rext, img_ext |-> iext, other_ext |-> oext]

(***************************************************************************)
(* The accessors: each returns [self |-> the record after the call,        *)
(* ret |-> the returned bool].                                             *)
(***************************************************************************)
hash_raw(self, raw_exists) ==
    LET s == IF raw_exists.some
             THEN [self EXCEPT !.types_found.hash_raw = raw_exists.val]
             ELSE self
    IN  [self |-> s, ret |-> s.types_found.hash_raw]

hash_img_set_only(self, img_exists) ==
    LET s == IF img_exists.some /\ img_exists.val
             THEN [self EXCEPT !.types_found.hash_img = TRUE]
             ELSE self
    IN  [self |-> s, ret |-> s.types_found.hash_img]

hash_img(self, img_exists) ==
    LET s == IF img_exists.some
             THEN [self EXCEPT !.types_found.hash_img = img_exists.val]
             ELSE self
    IN  [self |-> s, ret |-> s.types_found.hash_img]

hash_other_writes_raw(self, other_exists) ==
    LET s == IF other_exists.some
             THEN [self EXCEPT !.types_found.hash_other = other_exists.val,
                               !.types_found.hash_raw = other_exists.val]
             ELSE self
    IN  [self |-> s, ret |-> s.types_found.hash_other]

hash_other(self, other_exists) ==
    LET s == IF other_exists.some
             THEN [self EXCEPT !.types_found.hash_other = other_exists.val]
             ELSE self
    IN  [self |-> s, ret |-> s.types_found.hash_other]

is_developed_either(self) ==
    IF self.types_found.hash_raw \/ self.types_found.hash_img THEN TRUE ELSE FALSE

is_developed(self) ==
    IF self.types_found.hash_raw /\ self.types_found.hash_img THEN TRUE ELSE FALSE

(***************************************************************************)
(* std::fs::remove_file as clear uses it: [result, files after the call].  *)
(***************************************************************************)
remove_file(path, fs, lk) ==
    IF path \notin fs
    THEN [result |-> ErrFromOs("NotFound"), files |-> fs]
    ELSE IF path \in lk
         THEN [result |-> ErrFromOs("PermissionDenied"), files |-> fs]
         ELSE [result |-> Ok(0), files |-> fs \ {path}]

\* The match of clear: the extension and the flag of the requested variant.
clear_match(self, image_type) ==
    CASE image_type = "Raw" ->
             [extra |-> self.raw_ext, exists |-> self.types_found.hash_raw]
      [] image_type = "Img" ->
             [extra |-> self.img_ext, exists |-> self.types_found.hash_img]
      [] image_type = "Other" ->
             [extra |-> self.other_ext, exists |-> self.types_found.hash_other]

(***************************************************************************)
(* PhotoFile::clear: [self |-> the record after the call, result |-> the   *)
(* io::Result returned, files |-> the directory after the call,            *)
(* attempt |-> the paths handed to remove_file].                           *)
(***************************************************************************)
clear_unguarded(self, image_type, fs, lk) ==
    LET filepath0 == self.name
        m == clear_match(self, image_type)
        filepath == filepath0 \o m.extra
        r == remove_file(filepath, fs, lk)
    IN  [self |-> self, result |-> r.result, files |-> r.files,
         attempt |-> {filepath}]

clear_with_dot(self, image_type, fs, lk) ==
    LET filepath0 == self.name
        m == clear_match(self, image_type)
        filepath == (filepath0 \o ".") \o m.extra
    IN  IF ~m.exists
        THEN [self |-> self, result |-> ErrFromKind("NotFound"),
              files |-> fs, attempt |-> {}]
        ELSE LET r == remove_file(filepath, fs, lk)
             IN  [self |-> self, result |-> r.result, files |-> r.files,
                  attempt |-> {filepath}]

clear_resets_flag(self, image_type, fs, lk) ==
    LET filepath0 == self.name
        m == clear_match(self, image_type)
        filepath == filepath0 \o m.extra
        reset == CASE image_type = "Raw" ->
                          [self EXCEPT !.types_found.hash_raw = FALSE]
                   [] image_type = "Img" ->
                          [self EXCEPT !.types_found.hash_img = FALSE]
                   [] image_type = "Other" ->
                          [self EXCEPT !.types_found.hash_other = FALSE]
    IN  IF ~m.exists
        THEN [self |-> self, result |-> ErrFromKind("NotFound"),
              files |-> fs, attempt |-> {}]
        ELSE LET r == remove_file(filepath, fs, lk)
             IN  [self |-> IF r.result.ok THEN reset ELSE self,
                  result |-> r.result, files |-> r.files,
                  attempt |-> {filepath}]

clear_ignores_error(self, image_type, fs, lk) ==
    LET filepath0 == self.name
        m == clear_match(self, image_type)
        filepath == filepath0 \o m.extra
    IN  IF ~m.exists
        THEN [self |-> self, result |-> ErrFromKind("NotFound"),
              files |-> fs, attempt |-> {}]
        ELSE LET r == remove_file(filepath, fs, lk)
             IN  [self |-> self, result |-> Ok(0), files |-> r.files,
                  attempt |-> {filepath}]

clear_pushes_on_name(self, image_type, fs, lk) ==
    LET m == clear_match(self, image_type)
        filepath == self.name \o m.extra
        grown == [self EXCEPT !.name = filepath]
    IN  IF ~m.exists
        THEN [self |-> grown, result |-> ErrFromKind("NotFound"),
              files |-> fs, attempt |-> {}]
        ELSE LET r == remove_file(filepath, fs, lk)
             IN  [self |-> grown, result |-> r.result, files |-> r.files,
                  attempt |-> {filepath}]

clear_removes_before_guard(self, image_type, fs, lk) ==
    LET filepath0 == self.name
        m == clear_match(self, image_type)
        filepath == filepath0 \o m.extra
        r == remove_file(filepath, fs, lk)
    IN  IF ~m.exists
        THEN [self |-> self, result |-> ErrFromKind("NotFound"),
              files |-> r.files, attempt |-> {filepath}]
        ELSE [self |-> self, result |-> r.result, files |-> r.files,
              attempt |-> {filepath}]

clear(self, image_type, fs, lk) ==
    LET filepath0 == self.name
        m == clear_match(self, image_type)
        filepath == filepath0 \o m.extra
    IN  IF ~m.exists
        THEN [self |-> self, result |-> ErrFromKind("NotFound"),
              files |-> fs, attempt |-> {}]
        ELSE LET r == remove_file(filepath, fs, lk)
             IN  \* remove_file(filepath)?; Ok(0)
                 [self |-> self,
                  result |-> IF r.result.ok THEN Ok(0) ELSE r.result,
                  files |-> r.files, attempt |-> {filepath}]

(***************************************************************************)
(* The state machine: a caller that owns one PhotoFile and calls its       *)
(* methods in any order, in a working directory that holds any subset of   *)
(* DiskFiles.                                                              *)
(***************************************************************************)
NoExtArgs == <<NoneStr, NoneStr, NoneStr>>

CallRecord(op, name_arg, ext_args, bool_arg, variant, ret, result, attempt) ==
    [op |-> op, name_arg |-> name_arg, ext_args |-> ext_args,
     bool_arg |-> bool_arg, variant |-> variant, ret |-> ret,
     result |-> result, attempt |-> attempt]

Init ==
    /\ files \in SUBSET DiskFiles
    /\ locked \in SUBSET LockedFiles
    /\ calls = 1
    /\ \E n \in Names, r \in RawExtArgs, i \in ImgExtArgs, o \in OtherExtArgs :
          /\ pf = new(n, r, i, o)
          /\ last = CallRecord("new", n, <<r, i, o>>, NoneBool, "-", FALSE,
                               NoResult, {})

New ==
    /\ calls < MaxCalls
    /\ \E n \in Names, r \in RawExtArgs, i \in ImgExtArgs, o \in OtherExtArgs :
          /\ pf' = new(n, r, i, o)
          /\ last' = CallRecord("new", n, <<r, i, o>>, NoneBool, "-", FALSE,
                                NoResult, {})
    /\ calls' = calls + 1
    /\ UNCHANGED <<files, locked>>

HashRaw ==
    /\ calls < MaxCalls
    /\ \E b \in OptBool :
          LET c == hash_raw(pf, b)
          IN  /\ pf' = c.self
              /\ last' = CallRecord("hash_raw", "", NoExtArgs, b, "-", c.ret,
                                    NoResult, {})
    /\ calls' = calls + 1
    /\ UNCHANGED <<files, locked>>

HashImg ==
    /\ calls < MaxCalls
    /\ \E b \in OptBool :
          LET c == hash_img(pf, b)
          IN  /\ pf' = c.self
              /\ last' = CallRecord("hash_img", "", NoExtArgs, b, "-", c.ret,
                                    NoResult, {})
    /\ calls' = calls + 1
    /\ UNCHANGED <<files, locked>>

HashOther ==
    /\ calls < MaxCalls
    /\ \E b \in OptBool :
          LET c == hash_other(pf, b)
          IN  /\ pf' = c.self
              /\ last' = CallRecord("hash_other", "", NoExtArgs, b, "-", c.ret,
                                    NoResult, {})
    /\ calls' = calls + 1
    /\ UNCHANGED <<files, locked>>

IsDeveloped ==
    /\ calls < MaxCalls
    /\ last' = CallRecord("is_developed", "", NoExtArgs, NoneBool, "-",
                          is_developed(pf), NoResult, {})
    /\ calls' = calls + 1
    /\ UNCHANGED <<pf, files, locked>>

Clear ==
    /\ calls < MaxCalls
    /\ \E t \in PhotoType :
          LET c == clear(pf, t, files, locked)
          IN  /\ pf' = c.self
              /\ files' = c.files
              /\ last' = CallRecord("clear", "", NoExtArgs, NoneBool, t, FALSE,
                                    c.result, c.attempt)
    /\ calls' = calls + 1
    /\ UNCHANGED locked

Next ==
    \/ New
    \/ HashRaw
    \/ HashImg
    \/ HashOther
    \/ IsDeveloped
    \/ Clear

Spec == Init /\ [][Next]_vars

TypeOK ==
    /\ pf.name \in Names
    /\ pf.types_found \in [hash_raw : BOOLEAN, hash_img : BOOLEAN, hash_other : BOOLEAN]
    /\ files \subseteq DiskFiles
    /\ locked \subseteq LockedFiles
    /\ calls \in 1..MaxCalls
    /\ last.op \in {"new", "hash_raw", "hash_img", "hash_other", "is_developed", "clear"}

(***************************************************************************)
(* Vocabulary of the properties.  Every step of Next is one call, and      *)
(* last' describes it; the unprimed variables are the state before it.     *)
(***************************************************************************)
FlagOf(self, v) ==
    CASE v = "Raw" -> self.types_found.hash_raw
      [] v = "Img" -> self.types_found.hash_img
      [] v = "Other" -> self.types_found.hash_other

ExtOf(self, v) ==
    CASE v = "Raw" -> self.raw_ext
      [] v = "Img" -> self.img_ext
      [] v = "Other" -> self.other_ext

PathOf(self, v) == self.name \o ExtOf(self, v)

AccessorOf(v) ==
    CASE v = "Raw" -> "hash_raw"
      [] v = "Img" -> "hash_img"
      [] v = "Other" -> "hash_other"

GuardError == ErrFromKind("NotFound")

C2_ClearGuardTouchesNoFile ==
    [][(last'.op = "clear" /\ ~FlagOf(pf, last'.variant)) =>
          /\ last'.result = GuardError
          /\ last'.attempt = {}
          /\ files' = files]_vars

C2_Witness ==
    /\ last.op = "clear"
    /\ ~FlagOf(pf, last.variant)
    /\ PathOf(pf, last.variant) \in files
    /\ last.result = GuardError
    /\ last.attempt = {}

C4_ClearKeepsFlags ==
    [][last'.op = "clear" =>
          /\ pf'.types_found = pf.types_found
          /\ (last'.result.ok => FlagOf(pf', last'.variant))
          /\ (pf'.types_found.hash_raw /\ pf'.types_found.hash_img)
                 = (pf.types_found.hash_raw /\ pf.types_found.hash_img)]_vars

C4_Witness ==
    /\ last.op = "clear"
    /\ last.result.ok
    /\ last.variant = "Img"
    /\ pf.types_found.hash_img
    /\ pf.types_found.hash_raw

C6_AccessorGetOrSet ==
    [][\A v \in PhotoType :
          last'.op = AccessorOf(v) =>
              IF last'.bool_arg.some
              THEN /\ FlagOf(pf', v) = last'.bool_arg.val
                   /\ last'.ret = last'.bool_arg.val
              ELSE /\ FlagOf(pf', v) = FlagOf(pf, v)
                   /\ last'.ret = FlagOf(pf, v)]_vars

C6_Witness ==
    /\ last.op = "hash_img"
    /\ last.bool_arg = SomeBool(FALSE)
    /\ ~last.ret
    /\ ~pf.types_found.hash_img
    /\ pf.types_found.hash_raw

\* C7: the record new returns has the three flags false (so is_developed()
\* is false), the given name, and per variant the given extension, or the
\* default when none was given: RAF for raw, JPG for img, xmp for other.
C7_NewRecord ==
    last.op = "new" =>
        /\ ~pf.types_found.hash_raw
        /\ ~pf.types_found.hash_img
        /\ ~pf.types_found.hash_other
        /\ ~(pf.types_found.hash_raw /\ pf.types_found.hash_img)
        /\ pf.name = last.name_arg
        /\ pf.raw_ext = (IF last.ext_args[1].some THEN last.ext_args[1].val ELSE "RAF")
        /\ pf.img_ext = (IF last.ext_args[2].some THEN last.ext_args[2].val ELSE "JPG")
        /\ pf.other_ext = (IF last.ext_args[3].some THEN last.ext_args[3].val ELSE "xmp")

C7_Witness ==
    /\ last.op = "new"
    /\ calls > 1
    /\ last.ext_args = <<SomeStr("dng"), NoneStr, SomeStr("xml")>>
    /\ pf.raw_ext = "dng"
    /\ pf.img_ext = "JPG"
    /\ pf.other_ext = "xml"
    /\ pf.types_found = [hash_raw |-> FALSE, hash_img |-> FALSE, hash_other |-> FALSE]

\* C8: no accessor, is_developed or clear call changes the name or an
\* extension of the record, so two clear(v) calls in a row that reach
\* remove_file hand it the same path.
C8_NameAndExtensionsFixed ==
    [][last'.op # "new" =>
          /\ pf'.name = pf.name
          /\ pf'.raw_ext = pf.raw_ext
          /\ pf'.img_ext = pf.img_ext
          /\ pf'.other_ext = pf.other_ext
          /\ (/\ last.op = "clear"
              /\ last'.op = "clear"
              /\ last'.variant = last.variant
              /\ last.attempt # {}
              /\ last'.attempt # {}) => (last'.attempt = last.attempt)]_vars

C8_Witness ==
    /\ last.op = "clear"
    /\ last.variant = "Raw"
    /\ last.attempt = {"testdng"}
    /\ pf.name = "test"
    /\ pf.raw_ext = "dng"
    /\ calls >= 3

\* C9: the directory changes only in a clear call that returns success, and
\* that call removes exactly the file name+ext(requested variant); new, the
\* accessors, is_developed and every failing clear leave it as it was.
C9_OnlySuccessfulClearRemoves ==
    [][IF last'.op = "clear" /\ last'.result.ok
       THEN /\ PathOf(pf, last'.variant) \in files
            /\ files' = files \ {PathOf(pf, last'.variant)}
       ELSE files' = files]_vars

C9_Witness ==
    /\ last.op = "clear"
    /\ last.result.ok
    /\ last.variant = "Other"
    /\ files = DiskFiles \ {"testxmp"}

\* C10: a call to the accessor of one variant leaves the flags of the two
\* other variants as they were, and while calls remain any flag can be
\* written to either value from any state, so all eight flag combinations
\* are reachable in any order of writes.
WriteFlag(v, b) ==
    /\ Next
    /\ last'.op = AccessorOf(v)
    /\ last'.bool_arg = SomeBool(b)
    /\ FlagOf(pf', v) = b
    /\ \A w \in PhotoType \ {v} : FlagOf(pf', w) = FlagOf(pf, w)

C10_FlagsIndependent ==
    /\ [](calls < MaxCalls =>
             \A v \in PhotoType, b \in BOOLEAN : ENABLED WriteFlag(v, b))
    /\ [][\A v \in PhotoType :
             last'.op = AccessorOf(v) =>
                 \A w \in PhotoType \ {v} : FlagOf(pf', w) = FlagOf(pf, w)]_vars

C10_Witness ==
    /\ last.op = "hash_raw"
    /\ last.bool_arg = SomeBool(FALSE)
    /\ ~pf.types_found.hash_raw
    /\ pf.types_found.hash_img
    /\ pf.types_found.hash_other

====
